---- MODULE Spec2Model ----
(***************************************************************************)
(* Model of the project synchronisation pass of codewind-installer         *)
(* (pkg/project/sync.go).  Paths and glob patterns are sequences of        *)
(* one-character strings, so that slicing, cleaning and glob matching are  *)
(* computed the way the Go code computes them.                             *)
(***************************************************************************)
EXTENDS Integers, Sequences, FiniteSets, TLC

(***************************************************************************)
(* Bounds of the model.                                                    *)
(***************************************************************************)
\* modification times range over 0..MaxTime (milliseconds since epoch)
MaxTime == 2

(***************************************************************************)
(* Characters.                                                             *)
(***************************************************************************)
Sep == "/"

\* byte values of the characters the model uses (for character-class ranges)
Ascii(c) ==
  CASE c = "*" -> 42 [] c = "-" -> 45 [] c = "." -> 46 [] c = "/" -> 47
    [] c = "?" -> 63 [] c = "[" -> 91 [] c = "\\" -> 92 [] c = "]" -> 93
    [] c = "^" -> 94 [] c = "a" -> 97 [] c = "b" -> 98 [] c = "c" -> 99
    [] c = "d" -> 100 [] c = "e" -> 101 [] c = "f" -> 102 [] c = "g" -> 103
    [] c = "h" -> 104 [] c = "i" -> 105 [] c = "j" -> 106 [] c = "n" -> 110
    [] c = "o" -> 111 [] c = "p" -> 112 [] c = "r" -> 114 [] c = "s" -> 115
    [] c = "t" -> 116 [] c = "w" -> 119 [] c = "x" -> 120
    [] OTHER -> 0

\* s[from:] of Go, with a 0-based inclusive start
Drop(s, n) == SubSeq(s, n + 1, Len(s))

Contains(s, c) == \E i \in 1..Len(s) : s[i] = c

(***************************************************************************)
(* filepath.Clean, filepath.Join, filepath.IsAbs (Unix)                    *)
(***************************************************************************)
RECURSIVE SplitLoop(_, _, _, _)
\* the components of s between separators, empty components included
SplitLoop(s, i, cur, acc) ==
  IF i > Len(s) THEN Append(acc, cur)
  ELSE IF s[i] = Sep THEN SplitLoop(s, i + 1, <<>>, Append(acc, cur))
  ELSE SplitLoop(s, i + 1, Append(cur, s[i]), acc)

Split(s) == SplitLoop(s, 1, <<>>, <<>>)

DotDot == <<".", ".">>

RECURSIVE CleanLoop(_, _, _, _)
\* the stack of kept components: "." and empty dropped, ".." pops
CleanLoop(comps, i, rooted, stack) ==
  IF i > Len(comps) THEN stack
  ELSE LET c == comps[i] IN
    IF c = <<>> \/ c = <<".">> THEN CleanLoop(comps, i + 1, rooted, stack)
    ELSE IF c = DotDot THEN
      IF Len(stack) > 0 /\ stack[Len(stack)] # DotDot
        THEN CleanLoop(comps, i + 1, rooted, SubSeq(stack, 1, Len(stack) - 1))
      ELSE IF rooted THEN CleanLoop(comps, i + 1, rooted, stack)
      ELSE CleanLoop(comps, i + 1, rooted, Append(stack, c))
    ELSE CleanLoop(comps, i + 1, rooted, Append(stack, c))

RECURSIVE JoinComps(_, _)
JoinComps(stack, i) ==
  IF i > Len(stack) THEN <<>>
  ELSE (IF i > 1 THEN <<Sep>> ELSE <<>>) \o stack[i] \o JoinComps(stack, i + 1)

Clean(path) ==
  IF path = <<>> THEN <<".">>
  ELSE LET rooted == path[1] = Sep
           stack == CleanLoop(Split(path), 1, rooted, <<>>)
           body == JoinComps(stack, 1)
       IN IF rooted THEN <<Sep>> \o body
          ELSE IF body = <<>> THEN <<".">> ELSE body

IsAbs(path) == Len(path) > 0 /\ path[1] = Sep

\* filepath.Join of two elements: empty elements are ignored, the result cleaned
Join(a, b) ==
  IF a = <<>> /\ b = <<>> THEN <<>>
  ELSE IF a = <<>> THEN Clean(b)
  ELSE IF b = <<>> THEN Clean(a)
  ELSE Clean(a \o <<Sep>> \o b)

(***************************************************************************)
(* filepath.Match (Unix): scanChunk, getEsc, matchChunk, Match             *)
(***************************************************************************)
RECURSIVE StripStars(_)
StripStars(p) == IF Len(p) > 0 /\ p[1] = "*" THEN StripStars(Tail(p)) ELSE p

RECURSIVE ScanEnd(_, _, _)
\* the index (1-based) of the first "*" outside a character class, or Len+1
ScanEnd(p, i, inrange) ==
  IF i > Len(p) THEN i
  ELSE CASE p[i] = "\\" -> ScanEnd(p, IF i + 1 <= Len(p) THEN i + 2 ELSE i + 1, inrange)
         [] p[i] = "[" -> ScanEnd(p, i + 1, TRUE)
         [] p[i] = "]" -> ScanEnd(p, i + 1, FALSE)
         [] p[i] = "*" -> IF ~inrange THEN i ELSE ScanEnd(p, i + 1, inrange)
         [] OTHER -> ScanEnd(p, i + 1, inrange)

scanChunk(pattern) ==
  LET p == StripStars(pattern)
      i == ScanEnd(p, 1, FALSE)
  IN [star |-> Len(pattern) > 0 /\ pattern[1] = "*",
      chunk |-> SubSeq(p, 1, i - 1),
      rest |-> SubSeq(p, i, Len(p))]

getEsc(chunk) ==
  IF Len(chunk) = 0 \/ chunk[1] = "-" \/ chunk[1] = "]"
    THEN [err |-> TRUE, r |-> 0, nchunk |-> <<>>]
  ELSE LET c1 == IF chunk[1] = "\\" THEN Tail(chunk) ELSE chunk IN
    IF Len(c1) = 0 THEN [err |-> TRUE, r |-> 0, nchunk |-> <<>>]
    ELSE [err |-> Len(c1) = 1, r |-> Ascii(c1[1]), nchunk |-> Tail(c1)]

RECURSIVE ParseRanges(_, _, _, _)
\* the loop over the ranges of one character class; r is the rune under test
ParseRanges(chunk, r, match, nrange) ==
  IF Len(chunk) > 0 /\ chunk[1] = "]" /\ nrange > 0
    THEN [err |-> FALSE, chunk |-> Tail(chunk), match |-> match]
  ELSE LET lo == getEsc(chunk) IN
    IF lo.err THEN [err |-> TRUE, chunk |-> <<>>, match |-> FALSE]
    ELSE IF lo.nchunk[1] = "-"
      THEN LET hi == getEsc(Tail(lo.nchunk)) IN
           IF hi.err THEN [err |-> TRUE, chunk |-> <<>>, match |-> FALSE]
           ELSE ParseRanges(hi.nchunk, r, match \/ (lo.r <= r /\ r <= hi.r), nrange + 1)
      ELSE ParseRanges(lo.nchunk, r, match \/ lo.r = r, nrange + 1)

RECURSIVE matchChunkLoop(_, _, _)
matchChunkLoop(chunk, s, failed0) ==
  IF Len(chunk) = 0
    THEN IF failed0 THEN [rest |-> <<>>, ok |-> FALSE, err |-> FALSE]
         ELSE [rest |-> s, ok |-> TRUE, err |-> FALSE]
  ELSE LET failed == failed0 \/ Len(s) = 0 IN
    CASE chunk[1] = "[" ->
           LET r == IF ~failed THEN Ascii(s[1]) ELSE 0
               s1 == IF ~failed THEN Tail(s) ELSE s
               c1 == Tail(chunk)
               negated == Len(c1) > 0 /\ c1[1] = "^"
               c2 == IF negated THEN Tail(c1) ELSE c1
               pr == ParseRanges(c2, r, FALSE, 0)
           IN IF pr.err THEN [rest |-> <<>>, ok |-> FALSE, err |-> TRUE]
              ELSE matchChunkLoop(pr.chunk, s1, failed \/ (pr.match = negated))
      [] chunk[1] = "?" ->
           IF ~failed THEN matchChunkLoop(Tail(chunk), Tail(s), s[1] = Sep)
           ELSE matchChunkLoop(Tail(chunk), s, failed)
      [] chunk[1] = "\\" ->
           LET c1 == Tail(chunk) IN
           IF Len(c1) = 0 THEN [rest |-> <<>>, ok |-> FALSE, err |-> TRUE]
           ELSE IF ~failed THEN matchChunkLoop(Tail(c1), Tail(s), c1[1] # s[1])
           ELSE matchChunkLoop(Tail(c1), s, failed)
      [] OTHER ->
           IF ~failed THEN matchChunkLoop(Tail(chunk), Tail(s), chunk[1] # s[1])
           ELSE matchChunkLoop(Tail(chunk), s, failed)

matchChunk(chunk, s) == matchChunkLoop(chunk, s, FALSE)

RECURSIVE CheckRest(_)
\* before returning false with no error, the rest of the pattern is checked
CheckRest(pattern) ==
  IF Len(pattern) = 0 THEN [matched |-> FALSE, err |-> FALSE]
  ELSE LET sc == scanChunk(pattern) IN
    IF matchChunk(sc.chunk, <<>>).err THEN [matched |-> FALSE, err |-> TRUE]
    ELSE CheckRest(sc.rest)

RECURSIVE MatchLoop(_, _)
RECURSIVE StarSkip(_, _, _, _)
\* "look for match skipping i+1 bytes; cannot skip /" (i is 0-based)
StarSkip(chunk, rest, name, i) ==
  IF ~(i < Len(name) /\ name[i + 1] # Sep) THEN CheckRest(rest)
  ELSE LET mc == matchChunk(chunk, Drop(name, i + 1)) IN
    IF mc.ok THEN
      IF Len(rest) = 0 /\ Len(mc.rest) > 0 THEN StarSkip(chunk, rest, name, i + 1)
      ELSE MatchLoop(rest, mc.rest)
    ELSE IF mc.err THEN [matched |-> FALSE, err |-> TRUE]
    ELSE StarSkip(chunk, rest, name, i + 1)

MatchLoop(pattern, name) ==
  IF Len(pattern) = 0 THEN [matched |-> Len(name) = 0, err |-> FALSE]
  ELSE LET sc == scanChunk(pattern) IN
    IF sc.star /\ sc.chunk = <<>>
      THEN [matched |-> ~Contains(name, Sep), err |-> FALSE]
    ELSE LET mc == matchChunk(sc.chunk, name) IN
      IF mc.ok /\ (Len(mc.rest) = 0 \/ Len(sc.rest) > 0) THEN MatchLoop(sc.rest, mc.rest)
      ELSE IF mc.err THEN [matched |-> FALSE, err |-> TRUE]
      ELSE IF sc.star THEN StarSkip(sc.chunk, sc.rest, name, 0)
      ELSE CheckRest(sc.rest)

Match(pattern, name) == MatchLoop(pattern, name)

(***************************************************************************)
(* ignoreFileOrDirectory (sync.go 346-364)                                 *)
(***************************************************************************)
\* "remove preceding slash from older versions of cw-settings"
StripLegacySlash(fileName) ==
  IF Len(fileName) > 0 /\ fileName[1] = Sep THEN Tail(fileName) ELSE fileName

\* the pattern a rule is matched as: cleaned, leading separator stripped
CleanedRule(fileName) == StripLegacySlash(Clean(fileName))

RECURSIVE ignoreLoop(_, _, _)
\* the loop over the rules from index i on: an error of Match returns false
\* at once, a match returns true, otherwise the next rule is tried
ignoreLoop(name, list, i) ==
  IF i > Len(list) THEN FALSE
  ELSE LET m == Match(CleanedRule(list[i]), name) IN
    IF m.err THEN FALSE
    ELSE IF m.matched THEN TRUE
    ELSE ignoreLoop(name, list, i + 1)

ignoreFileOrDirectory(name, isDir, cwSettingsIgnoredPathsList) ==
  ignoreLoop(name, cwSettingsIgnoredPathsList, 1)

existsIn(value, slice) == \E i \in 1..Len(slice) : slice[i] = value

(***************************************************************************)
(* The paths of the modelled world.                                        *)
(***************************************************************************)
ProjectPath == <<"/", "p">>
\* a recorded location on disk that is not the supplied path
OtherLocation == <<"/", "q">>
RefPathsName == <<".", "c", "w", "-", "r", "e", "f", "p", "a", "t", "h", "s",
                  ".", "j", "s", "o", "n">>
SettingsName == <<".", "c", "w", "-", "s", "e", "t", "t", "i", "n", "g", "s">>
NameA == <<"a">>
NameB == <<"b">>
NameD == <<"d">>
NameDX == <<"d", "/", "x">>
\* outside the project: a file /e, a directory /o holding a file /o/f, and a
\* path /n at which nothing exists
ExtE == <<"/", "e">>
ExtO == <<"/", "o">>
ExtOF == <<"/", "o", "/", "f">>
ExtN == <<"/", "n">>

Abs(rel) == ProjectPath \o <<Sep>> \o rel

Times == 0..MaxTime

File(m) == [isDir |-> FALSE, mtime |-> m, readable |-> TRUE]
Dir(r) == [isDir |-> TRUE, mtime |-> 0, readable |-> r]

\* the rule lists a .cw-settings file may hold
RuleLists ==
  { <<NameD>>,                          \* a directory name
    << <<"[">>, NameD >>,               \* a malformed pattern before a rule
    << <<".", "*">> >>,                 \* every dot file of the root
    << <<"/", "d">>, <<"?">> >> }       \* the legacy form, and a glob

RefPath(from, to) == [From |-> from, To |-> to]

\* the reference lists a .cw-refpaths.json file may hold
RefLists ==
  { << RefPath(ExtOF, NameA) >>,
    << RefPath(ExtN, NameB), RefPath(ExtE, NameA) >>,
    << RefPath(ExtN, NameB), RefPath(ExtOF, NameDX), RefPath(NameA, NameB) >>,
    << RefPath(ExtO, NameB), RefPath(NameA, NameD) >> }

\* a rule file is missing, unparseable, or holds a list
RuleFile(status, list, m) == [status |-> status, list |-> list, mtime |-> m]

\* the file lists the remote may have recorded at the end of an earlier pass
PriorLists ==
  { <<>>,
    << NameA >>,
    << RefPathsName, SettingsName, NameA, NameB, NameD, NameDX >> }

(***************************************************************************)
(* State.                                                                  *)
(***************************************************************************)
VARIABLES
  \* the world of one pass
  fs,                \* the filesystem: absolute path -> [isDir, mtime, readable]
  settingsFile,      \* .cw-settings: [status, list, mtime]
  refsFile,          \* .cw-refpaths.json: [status, list, mtime]
  synctime,          \* the cutoff given by the caller (c.Int("time"))
  locationOnDisk,    \* the project location the remote has recorded
  now,               \* the wall clock, in milliseconds
  currentSyncTime,   \* the wall clock read when the pass began (line 96)
  passNo,            \* the passes begun so far
  prev,              \* what the pass before this one did
  touched,           \* the files modified after the walker listed them
  failures,          \* transport failures of per-file uploads so far
  \* SyncProject and syncFiles
  pc,
  fileList, directoryList, modifiedList, uploadedFiles,
  refPathsChanged,
  cwSettingsIgnoredPathsList, cwRefPathsList, cwCombinedIgnoredPathsList,
  walkQueue,         \* the entries filepath.Walk has still to visit, in order
  refIdx,            \* the reference path the loop of line 256 is at
  errText,           \* the invalid references recorded so far
  syncInfoNil,       \* syncFiles returned a nil *SyncInfo
  syncErr,           \* the *ProjectError syncFiles returned
  BeforeFileList, fetched,
  recIdx, newfiles,  \* the loop of findNewFiles
  result,            \* what SyncProject returned
  \* what the pass did to its collaborators
  calls,             \* the calls of syncFile, in order
  refWalks,          \* the cutoff of each reference walk made, in order
  manifests,         \* the completion manifests dispatched
  notifs,            \* the missingLocalDir notifications dispatched
  \* one call of ignoreFileOrDirectory on its own
  ignName, ignRules, ignResult, ignDone,
  \* one call of RemoveRemote (pkg/remote/remove.go)
  remPc,             \* "none", "start", "deleting", "done"
  removalStatus,     \* the RemovalResult: field -> status
  remResult,         \* what RemoveRemote returned
  remLog             \* what the cluster answered for each resource, in order

ignVars == <<ignName, ignRules, ignResult, ignDone>>
remVars == <<remPc, removalStatus, remResult, remLog>>
envVars == <<fs, settingsFile, refsFile, synctime, locationOnDisk,
            now, currentSyncTime, passNo, prev, touched>>
listVars == <<fileList, directoryList, modifiedList, uploadedFiles, refPathsChanged>>
ruleVars == <<cwSettingsIgnoredPathsList, cwRefPathsList, cwCombinedIgnoredPathsList>>
recVars == <<BeforeFileList, fetched, recIdx, newfiles>>
vars == <<fs, settingsFile, refsFile, synctime, locationOnDisk,
          now, currentSyncTime, passNo, prev, touched, failures, pc,
          fileList, directoryList, modifiedList, uploadedFiles, refPathsChanged,
          cwSettingsIgnoredPathsList, cwRefPathsList, cwCombinedIgnoredPathsList,
          walkQueue, refIdx, errText, syncInfoNil, syncErr,
          BeforeFileList, fetched, recIdx, newfiles, result,
          calls, refWalks, manifests, notifs,
          ignName, ignRules, ignResult, ignDone,
          remPc, removalStatus, remResult, remLog>>

\* transport failures of per-file uploads one pass is given
MaxFailures == 1

(***************************************************************************)
(* The initial states: a filesystem, two rule files, a cutoff.             *)
(***************************************************************************)
NoFile == RuleFile("missing", <<>>, 0)

\* there was no pass before the first
NoPrev == [passNo |-> 0]

\* what SyncProject returns: (*SyncResponse, *ProjectError); desc is the
\* texts the error's description is made of
Result(returned, respNil, status, code, uploaded, err, desc) ==
  [returned |-> returned, respNil |-> respNil, Status |-> status,
   StatusCode |-> code, UploadedFiles |-> uploaded, err |-> err, desc |-> desc]

NoResult == Result(FALSE, TRUE, "", 0, <<>>, "nil", <<>>)
ErrorResult(err, desc) == Result(TRUE, TRUE, "", 0, <<>>, err, desc)

\* a rule file is missing, cannot be read ("unreadable"), holds what
\* json.Unmarshal rejects ("bad"), or holds a list
SettingsFiles(t) ==
  {NoFile, RuleFile("bad", <<>>, t), RuleFile("unreadable", <<>>, t)}
    \cup {RuleFile("ok", l, t) : l \in RuleLists}

\* .cw-refpaths.json was last written long ago, or just now
RefsFileTimes == {0, MaxTime}

RefsFiles ==
  {NoFile, RuleFile("unreadable", <<>>, MaxTime)}
    \cup {RuleFile("bad", <<>>, m) : m \in RefsFileTimes}
    \cup {RuleFile("ok", l, m) : l \in RefLists, m \in RefsFileTimes}

\* the entry of a rule file in the filesystem
RuleFileEntry(rf) ==
  [isDir |-> FALSE, mtime |-> rf.mtime, readable |-> rf.status # "unreadable"]

ExternalFs(m) ==
  (ExtE :> File(m)) @@ (ExtO :> Dir(TRUE)) @@ (ExtOF :> File(m))

Entry(present, rel, info) ==
  IF present THEN Abs(rel) :> info ELSE <<>>

ProjectFs(sf, rf, hasA, aM, dState, xM) ==
  (ProjectPath :> Dir(TRUE))
    @@ Entry(rf.status # "missing", RefPathsName, RuleFileEntry(rf))
    @@ Entry(sf.status # "missing", SettingsName, RuleFileEntry(sf))
    @@ Entry(hasA, NameA, File(aM))
    @@ Entry(dState # "none", NameD, Dir(dState = "ok"))
    @@ Entry(dState # "none", NameDX, File(xM))

DStates == {"none", "ok", "unreadable"}

InitProgram ==
  /\ now = MaxTime /\ currentSyncTime = now
  /\ passNo = 1 /\ prev = NoPrev /\ touched = {}
  /\ failures = 0
  /\ pc = "start"
  /\ fileList = <<>> /\ directoryList = <<>> /\ modifiedList = <<>>
  /\ uploadedFiles = <<>>
  /\ refPathsChanged = FALSE
  /\ cwSettingsIgnoredPathsList = <<>> /\ cwRefPathsList = <<>>
  /\ cwCombinedIgnoredPathsList = <<>>
  /\ walkQueue = <<>> /\ refIdx = 1 /\ errText = <<>>
  /\ syncInfoNil = FALSE /\ syncErr = "nil"
  /\ BeforeFileList = <<>> /\ fetched = "no"
  /\ recIdx = 1 /\ newfiles = <<>>
  /\ result = NoResult
  /\ calls = <<>> /\ refWalks = <<>> /\ manifests = <<>> /\ notifs = 0

\* the project directory is missing: nothing of the project is on disk
InitMissing ==
  /\ synctime = MaxTime - 1
  /\ settingsFile = NoFile /\ refsFile = NoFile
  /\ locationOnDisk \in {ProjectPath, OtherLocation}
  /\ \E m \in Times : fs = ExternalFs(m)

InitPresent ==
  /\ synctime = MaxTime - 1
  /\ locationOnDisk = ProjectPath
  /\ settingsFile \in SettingsFiles(synctime)
  /\ refsFile \in RefsFiles
  /\ \E hasA \in BOOLEAN, dState \in DStates, aM, xM, eM \in Times :
       /\ ~hasA => aM = 0
       /\ dState # "ok" => xM = 0
       /\ refsFile.status # "ok" => eM = 0
       /\ fs = ProjectFs(settingsFile, refsFile, hasA, aM, dState, xM) @@ ExternalFs(eM)

\* no call of ignoreFileOrDirectory on its own is under way
InitNoCall ==
  /\ ignName = <<>> /\ ignRules = <<>> /\ ignResult = FALSE /\ ignDone = TRUE

(***************************************************************************)
(* RemoveRemote: the status constants and the RemovalResult (remove.go     *)
(* 30-111)                                                                 *)
(***************************************************************************)
ResourceNotProcessed == 0
ResourceFound == 1
ResourceNotFound == 2
ResourceRemoved == 3
ResourceSkipped == 4
ResourceRemoveFailed == 5

\* the deployments and services RemoveRemote deletes, in the order of its calls
HandledResources ==
  << "StatusDeploymentPFE", "StatusDeploymentPerformance",
     "StatusDeploymentGatekeeper", "StatusServicePFE",
     "StatusServicePerformance", "StatusServiceGatekeeper" >>

\* the fields of RemovalResult
ResultFields ==
  { "StatusPODGatekeeper", "StatusPODPFE", "StatusPODPerformance",
    "StatusPODKeycloak", "StatusServiceGatekeeper", "StatusServicePFE",
    "StatusServicePerformance", "StatusServiceKeycloak",
    "StatusDeploymentGatekeeper", "StatusDeploymentPFE",
    "StatusDeploymentPerformance", "StatusDeploymentKeycloak",
    "StatusSecretsCodewindClient", "StatusSecretsCodewindSession",
    "StatusSecretsCodewindTLS", "StatusSecretsKeycloakTLS",
    "StatusSecretsKeycloakUser", "StatusServiceAccount", "ClusterRoleBindings",
    "StatusPVCKeycloak" }

\* lines 86-111: every field starts as ResourceNotProcessed
NewRemovalResult == [f \in ResultFields |-> ResourceNotProcessed]

\* what RemoveRemote returns: (*RemovalResult, *RemInstError)
RemResult(returned, resultNil, err) ==
  [returned |-> returned, resultNil |-> resultNil, err |-> err]

InitRemoval(at) ==
  /\ remPc = at
  /\ removalStatus = NewRemovalResult
  /\ remResult = RemResult(FALSE, TRUE, "nil")
  /\ remLog = <<>>

\* no call of RemoveRemote is under way
InitNoRemoval == InitRemoval("none")

Init == InitProgram /\ InitNoCall /\ InitNoRemoval /\ (InitMissing \/ InitPresent)

(***************************************************************************)
(* syncFile (sync.go 408-461)                                              *)
(***************************************************************************)
UploadedFile(filePath, status, code) ==
  [FilePath |-> filePath, Status |-> status, StatusCode |-> code]

StatusText(code) == IF code = 200 THEN "200 OK" ELSE "500 Internal Server Error"

\* path[(len(projectPath) + 1):] panics when path is shorter than that
SliceInRange(path) == Len(path) >= Len(ProjectPath) + 1
RelativeTo(path) == Drop(path, Len(ProjectPath) + 1)

\* how far a call gets: the stat (417), the read (422), the request (450)
Reached(path) ==
  IF path \notin DOMAIN fs THEN "stat"
  ELSE IF fs[path].isDir \/ ~fs[path].readable THEN "read"
  ELSE "dispatched"

SyncFileCall(phase, path, rel, reached, out) ==
  [phase |-> phase, path |-> path, rel |-> rel, reached |-> reached, out |-> out]

\* what a call that got as far as reached returns (lines 411-460)
SyncFileReturn(relativePath, reached, code) ==
  IF reached = "dispatched" /\ code # 0
    THEN UploadedFile(relativePath, StatusText(code), code)
    ELSE UploadedFile(relativePath, "Failed", 0)

\* the outcome and the record of a call that got as far as reached
SyncFileOutcome(phase, path, relativePath, reached, code) ==
  [panic |-> FALSE,
   out |-> SyncFileReturn(relativePath, reached, code),
   call |-> SyncFileCall(phase, path, relativePath, reached,
                         SyncFileReturn(relativePath, reached, code))]

\* One call: the relative path is sliced out of the path read; stat and read
\* failures and a transport failure (code 0) yield {rel, "Failed", 0}.
\* ToSlash is the identity on Unix.
syncFile(phase, path, code) ==
  IF ~SliceInRange(path)
    THEN [panic |-> TRUE, out |-> UploadedFile(<<>>, "Failed", 0),
          call |-> SyncFileCall(phase, path, <<>>, "panic",
                                UploadedFile(<<>>, "Failed", 0))]
  ELSE SyncFileOutcome(phase, path, RelativeTo(path), Reached(path), code)

(***************************************************************************)
(* walker (sync.go 179-223)                                                *)
(***************************************************************************)
WalkerInfo(path, info, ignoredPaths, lastSync) ==
  [Path |-> path, isDir |-> info.isDir, mtime |-> info.mtime,
   IgnoredPaths |-> ignoredPaths, LastSync |-> lastSync]

Lists == [fileList |-> fileList, directoryList |-> directoryList,
          modifiedList |-> modifiedList, uploadedFiles |-> uploadedFiles,
          refPathsChanged |-> refPathsChanged, calls |-> calls]

\* lines 205-213 with the path of the upload outcome put in the modified list
walkerModifiedByOutcome(st1, up, relativePath) ==
  IF up.panic
    THEN [ret |-> "panic", st |-> [st1 EXCEPT !.calls = Append(@, up.call)]]
  ELSE [ret |-> "nil",
        st |-> [st1 EXCEPT !.calls = Append(@, up.call),
                           !.uploadedFiles = Append(@, up.out),
                           !.modifiedList = Append(@, up.out.FilePath),
                           !.refPathsChanged = @ \/ relativePath = RefPathsName]]

\* lines 205-213: the upload of a modified file and what is recorded of it
walkerModified(st1, up, relativePath) ==
  IF up.panic
    THEN [ret |-> "panic", st |-> [st1 EXCEPT !.calls = Append(@, up.call)]]
  ELSE [ret |-> "nil",
        st |-> [st1 EXCEPT !.calls = Append(@, up.call),
                           !.uploadedFiles = Append(@, up.out),
                           !.modifiedList = Append(@, relativePath),
                           !.refPathsChanged = @ \/ relativePath = RefPathsName]]

\* lines 193-221, the entry's relative path known
walkerEntry(phase, relativePath, info, code, st) ==
  IF ~info.isDir THEN
    IF ignoreFileOrDirectory(relativePath, FALSE, info.IgnoredPaths)
      THEN [ret |-> "nil", st |-> st]
    ELSE IF info.mtime > info.LastSync
      THEN walkerModified([st EXCEPT !.fileList = Append(@, relativePath)],
                          syncFile(phase, info.Path, code), relativePath)
    ELSE [ret |-> "nil", st |-> [st EXCEPT !.fileList = Append(@, relativePath)]]
  ELSE IF ignoreFileOrDirectory(relativePath, TRUE, info.IgnoredPaths)
    THEN [ret |-> "SkipDir", st |-> st]
  ELSE [ret |-> "nil", st |-> [st EXCEPT !.directoryList = Append(@, relativePath)]]

\* the closure applied to one entry: ret is what it returns ("nil",
\* "SkipDir", "err") or "panic"; st the captured variables afterwards
walker(phase, path, info, err, code, st) ==
  IF err THEN [ret |-> "err", st |-> st]
  ELSE IF path = ProjectPath THEN [ret |-> "nil", st |-> st]
  ELSE IF ~SliceInRange(path) THEN [ret |-> "panic", st |-> st]
  ELSE walkerEntry(phase, RelativeTo(path), info, code, st)

SetLists(st) ==
  /\ fileList' = st.fileList
  /\ directoryList' = st.directoryList
  /\ modifiedList' = st.modifiedList
  /\ uploadedFiles' = st.uploadedFiles
  /\ refPathsChanged' = st.refPathsChanged
  /\ calls' = st.calls

\* whether the call appended by a walker step was dispatched and failed
CountFailure(st, code) ==
  IF Len(st.calls) > Len(calls) /\ st.calls[Len(st.calls)].reached = "dispatched"
     /\ code = 0
    THEN failures + 1 ELSE failures

TransportCodes == {0, 200}

(***************************************************************************)
(* retrieveIgnoredPathsList, retrieveRefPathsList (sync.go 316-344)        *)
(***************************************************************************)
\* lines 320-326 with the ignore rules dropped when the reference file is bad
retrieveIgnoredPathsListCoupled ==
  IF settingsFile.status = "ok" /\ refsFile.status \in {"ok", "missing"}
    THEN settingsFile.list ELSE <<>>

\* a missing file leaves the list nil; of a file that cannot be read
\* ReadFile yields no bytes, which json.Unmarshal rejects like a malformed
\* file, and the list stays nil
retrieveIgnoredPathsList ==
  IF settingsFile.status = "ok" THEN settingsFile.list ELSE <<>>

retrieveRefPathsList ==
  IF refsFile.status = "ok" THEN refsFile.list ELSE <<>>

RECURSIVE ToPaths(_, _)
ToPaths(list, i) ==
  IF i > Len(list) THEN <<>> ELSE <<list[i].To>> \o ToPaths(list, i + 1)

\* the .cw-settings rules, then the To path of every reference
CombinedIgnoredPaths(ignored, refs) == ignored \o ToPaths(refs, 1)

(***************************************************************************)
(* filepath.Walk: the entries under the root, in lexical order             *)
(***************************************************************************)
IsPrefix(a, b) == Len(a) <= Len(b) /\ SubSeq(b, 1, Len(a)) = a

Under(dir, path) == IsPrefix(dir \o <<Sep>>, path)

RECURSIVE NameLess(_, _)
NameLess(a, b) ==
  IF Len(a) = 0 THEN Len(b) > 0
  ELSE IF Len(b) = 0 THEN FALSE
  ELSE IF Ascii(a[1]) # Ascii(b[1]) THEN Ascii(a[1]) < Ascii(b[1])
  ELSE NameLess(Tail(a), Tail(b))

RECURSIVE CompsLess(_, _)
CompsLess(a, b) ==
  IF Len(a) = 0 THEN Len(b) > 0
  ELSE IF Len(b) = 0 THEN FALSE
  ELSE IF a[1] # b[1] THEN NameLess(a[1], b[1])
  ELSE CompsLess(Tail(a), Tail(b))

PathLess(a, b) == CompsLess(Split(a), Split(b))

RECURSIVE Sorted(_)
Sorted(S) ==
  IF S = {} THEN <<>>
  ELSE LET m == CHOOSE x \in S : \A y \in S \ {x} : PathLess(x, y)
       IN <<m>> \o Sorted(S \ {m})

\* the root, then its descendants depth first, the names of a directory sorted
WalkOrder(root) ==
  Sorted({p \in DOMAIN fs : p = root \/ Under(root, p)})

RECURSIVE Prune(_, _)
\* SkipDir: the entries under dir are not visited
Prune(queue, dir) ==
  IF queue = <<>> THEN <<>>
  ELSE IF Under(dir, Head(queue)) THEN Prune(Tail(queue), dir)
  ELSE <<Head(queue)>> \o Prune(Tail(queue), dir)

(***************************************************************************)
(* SyncProject (sync.go 95-168), step by step                              *)
(***************************************************************************)
PathExists(path) == path \in DOMAIN fs

\* lines 101-115: the connection of the project cannot be resolved
ConnectionNotFound ==
  /\ pc = "start"
  /\ pc' = "done"
  /\ result' = ErrorResult("errOpConNotFound", <<"connection not found">>)
  /\ UNCHANGED <<remVars, ignVars, envVars, failures, listVars, ruleVars, walkQueue, refIdx, errText,
                 syncInfoNil, syncErr, recVars, calls, refWalks, manifests, notifs>>

\* handleMissingProjectDir (366-385): nil, or the error of the request
handleMissingProjectDir(outcome) ==
  CASE outcome = "transport" -> "errOpRequest"
    [] outcome = "status" -> "errOpNotFound"
    [] OTHER -> "nil"

\* line 128 with the comparison inverted
PathIsNotRecordedLocation == ProjectPath # locationOnDisk

\* whether line 128 sends the pass to the missing-directory notification
PathIsRecordedLocation == ProjectPath = locationOnDisk

\* lines 119-138: the local path does not exist
MissingLocalPath ==
  /\ pc = "start"
  /\ ~PathExists(ProjectPath)
  /\ pc' = "done"
  /\ \E metadata \in {"ok", "failed"}, outcome \in {"ok", "transport", "status"} :
       IF metadata = "failed"
         THEN /\ outcome = "ok"
              /\ result' = ErrorResult("errOpGetProject", <<"project not found">>)
              /\ notifs' = notifs
       ELSE IF ~PathIsRecordedLocation
         THEN /\ outcome = "ok"
              /\ result' = ErrorResult("errBadPath", <<"textProjectPathDoesNotExist">>)
              /\ notifs' = notifs
       ELSE /\ notifs' = notifs + 1
            /\ result' = ErrorResult("errBadPath",
                 IF handleMissingProjectDir(outcome) = "nil"
                   THEN <<"textProjectPathDoesNotExist">>
                   ELSE <<handleMissingProjectDir(outcome)>>)
  /\ UNCHANGED <<remVars, ignVars, envVars, failures, listVars, ruleVars, walkQueue, refIdx, errText,
                 syncInfoNil, syncErr, recVars, calls, refWalks, manifests>>

\* line 141 and syncFiles 171-234: the rule files are read, the walk begins
BeginSyncFiles ==
  /\ pc = "start"
  /\ PathExists(ProjectPath)
  /\ cwSettingsIgnoredPathsList' = retrieveIgnoredPathsList
  /\ cwRefPathsList' = retrieveRefPathsList
  /\ cwCombinedIgnoredPathsList' =
       CombinedIgnoredPaths(retrieveIgnoredPathsList, retrieveRefPathsList)
  /\ walkQueue' = WalkOrder(ProjectPath)
  /\ pc' = "walk"
  /\ UNCHANGED <<remVars, ignVars, envVars, failures, listVars, refIdx, errText, syncInfoNil, syncErr,
                 recVars, result, calls, refWalks, manifests, notifs>>

\* line 244 with the clock of a later pass in place of the caller's cutoff
PrimaryCutoffOfPass == IF passNo > 1 THEN currentSyncTime ELSE synctime

\* line 244 with the comparison of line 204 made inclusive
PrimaryCutoffInclusive == synctime - 1

\* the cutoff of the primary walk (line 244)
PrimaryCutoff == synctime

\* the ignore list of the primary walk (line 243)
PrimaryIgnoredPaths == cwCombinedIgnoredPathsList

\* the entries left once the walk function has returned ret for path
QueueAfter(ret, path) ==
  IF ret = "SkipDir" THEN Prune(Tail(walkQueue), path) ELSE Tail(walkQueue)

\* the reference loop of line 256 with the walk still under way
AfterWalkFnEarly(ret, queue) ==
  IF ret = "panic" THEN "panic" ELSE "refs"

\* filepath.Walk goes on to the next entry; syncFiles goes on to line 253
\* once Walk has returned
AfterWalkFn(ret, queue) ==
  IF ret = "panic" THEN "panic"
  ELSE IF queue = <<>> THEN "refs" ELSE "walk"

\* what filepath.Walk and syncFiles do with what the walk function returned
WalkReturned(w, code, queue) ==
  /\ CountFailure(w.st, code) <= MaxFailures
  /\ failures' = CountFailure(w.st, code)
  /\ SetLists(w.st)
  /\ IF w.ret = "err"
       THEN /\ syncInfoNil' = TRUE
            /\ syncErr' = "errOpSync"
            /\ walkQueue' = <<>>
            /\ pc' = "fetch"
       ELSE /\ UNCHANGED <<syncInfoNil, syncErr>>
            /\ walkQueue' = queue
            /\ pc' = AfterWalkFn(w.ret, queue)

\* a directory whose names cannot be read is handed to the walk function
\* with the error
ReadDirFails(path) == fs[path].isDir /\ ~fs[path].readable

\* lines 237-251: filepath.Walk visits the next entry of the project tree
WalkStep ==
  /\ pc = "walk"
  /\ walkQueue # <<>>
  /\ \E code \in TransportCodes :
       \E w \in {walker("walk", Head(walkQueue),
                        WalkerInfo(Head(walkQueue), fs[Head(walkQueue)],
                                   PrimaryIgnoredPaths, PrimaryCutoff),
                        ReadDirFails(Head(walkQueue)), code, Lists)} :
         WalkReturned(w, code, QueueAfter(w.ret, Head(walkQueue)))
  /\ UNCHANGED <<remVars, ignVars, envVars, ruleVars, refIdx, errText, recVars, result, refWalks,
                 manifests, notifs>>

\* lines 272-276 without the forcing
RefCutoffUnforced == synctime

\* lines 272-276: the cutoff of a reference walk
RefCutoff == IF refPathsChanged THEN 0 ELSE synctime

\* the ignore list of a reference walk (line 282)
RefIgnoredPaths == cwSettingsIgnoredPathsList

\* lines 259-262
ResolveFrom(from) == IF ~IsAbs(from) THEN Join(ProjectPath, from) ELSE from

\* line 266: the reference is skipped
InvalidReference(from) == from \notin DOMAIN fs \/ fs[from].isDir

\* line 286: the value the walk function returns is dropped
RefWalkReturned(w, code, from, to) ==
  /\ CountFailure(w.st, code) <= MaxFailures
  /\ failures' = CountFailure(w.st, code)
  /\ SetLists(w.st)
  /\ refWalks' = Append(refWalks, [from |-> from, to |-> to, lastSync |-> RefCutoff])
  /\ pc' = IF w.ret = "panic" THEN "panic" ELSE pc
  /\ errText' = errText

RefTurn(from, to) ==
  IF InvalidReference(from)
    THEN /\ errText' = Append(errText, from)
         /\ pc' = pc
         /\ UNCHANGED <<failures, listVars, calls, refWalks>>
  ELSE \E code \in TransportCodes :
         \E w \in {walker("ref", Join(ProjectPath, to),
                          WalkerInfo(from, fs[from], RefIgnoredPaths, RefCutoff),
                          FALSE, code, Lists)} :
           RefWalkReturned(w, code, from, to)

\* lines 256-287: one turn of the loop over the reference paths
RefStep ==
  /\ pc = "refs"
  /\ refIdx <= Len(cwRefPathsList)
  /\ refIdx' = refIdx + 1
  /\ RefTurn(ResolveFrom(cwRefPathsList[refIdx].From), cwRefPathsList[refIdx].To)
  /\ UNCHANGED <<remVars, ignVars, envVars, ruleVars, walkQueue, syncInfoNil, syncErr, recVars, result,
                 manifests, notifs>>

\* lines 289-293: the error syncFiles returns beside the lists
SyncFilesError == IF errText # <<>> THEN "errOpSyncRef" ELSE "nil"

\* the file list the remote recorded if it took the manifest of the pass before
PrevFileLists ==
  IF passNo > 1 /\ prev.manifests # <<>> THEN {prev.manifests[1].FileList} ELSE {}

\* the file list the remote holds when a pass asks for it: before the first
\* pass any list; later the list of the manifest it took from the pass
\* before, or, the manifest not taken, the list it held then
RemoteFileLists ==
  IF passNo = 1 THEN PriorLists ELSE PrevFileLists \cup {prev.BeforeFileList}

\* syncFiles returns; line 144: GetProjectFileList; line 146 reads syncInfo
FetchBeforeFileList ==
  /\ \/ pc = "fetch"
     \/ pc = "refs" /\ refIdx > Len(cwRefPathsList)
  /\ syncErr' = IF pc = "fetch" THEN syncErr ELSE SyncFilesError
  /\ \E list \in RemoteFileLists, ok \in BOOLEAN :
       /\ ~ok => list = <<>>
       /\ fetched' = IF ok THEN "ok" ELSE "failed"
       /\ BeforeFileList' = list
       /\ pc' = IF syncInfoNil THEN "panic"
                ELSE IF ok THEN "reconcile" ELSE "complete"
  /\ UNCHANGED <<remVars, ignVars, envVars, failures, listVars, ruleVars, walkQueue, refIdx, errText,
                 syncInfoNil, recIdx, newfiles, result, calls, refWalks, manifests,
                 notifs>>

\* the path findNewFiles reads a new file from (line 391)
NewFilePath(filename) == Join(ProjectPath, filename)

\* the transport failures once the upload of a new file has returned
ReconcileFailures(up, code) ==
  IF up.call.reached = "dispatched" /\ code = 0 THEN failures + 1 ELSE failures

\* findNewFiles (387-397): one turn of the loop over the computed file list
ReconcileStep ==
  /\ pc = "reconcile"
  /\ recIdx <= Len(fileList)
  /\ recIdx' = recIdx + 1
  /\ IF ~existsIn(fileList[recIdx], BeforeFileList)
       THEN \E code \in TransportCodes :
              \E up \in {syncFile("reconcile", NewFilePath(fileList[recIdx]), code)} :
                /\ ReconcileFailures(up, code) <= MaxFailures
                /\ failures' = ReconcileFailures(up, code)
                /\ calls' = Append(calls, up.call)
                /\ newfiles' = Append(newfiles, fileList[recIdx])
                /\ pc' = IF up.panic THEN "panic" ELSE pc
       ELSE UNCHANGED <<calls, newfiles, pc, failures>>
  /\ UNCHANGED <<remVars, ignVars, envVars, listVars, ruleVars, walkQueue, refIdx, errText,
                 syncInfoNil, syncErr, BeforeFileList, fetched, result, refWalks,
                 manifests, notifs>>

CompleteRequest(files, dirs, modified, timeStamp) ==
  [FileList |-> files, DirectoryList |-> dirs, ModifiedList |-> modified,
   TimeStamp |-> timeStamp]

\* lines 148-167: the new files join the modified list, completeUpload
\* (296-314) dispatches the manifest, the response is returned with syncErr
CompleteUpload ==
  /\ \/ pc = "complete"
     \/ pc = "reconcile" /\ recIdx > Len(fileList)
  /\ modifiedList' = modifiedList \o newfiles
  /\ manifests' = Append(manifests,
       CompleteRequest(fileList, directoryList, modifiedList', currentSyncTime))
  /\ \E code \in TransportCodes :
       result' = Result(TRUE, FALSE, IF code = 0 THEN "transport error" ELSE StatusText(code),
                        code, uploadedFiles, syncErr, errText)
  /\ pc' = "done"
  /\ UNCHANGED <<remVars, ignVars, envVars, failures, fileList, directoryList, uploadedFiles,
                 refPathsChanged, ruleVars, walkQueue, refIdx, errText, syncInfoNil,
                 syncErr, recVars, calls, refWalks, notifs>>

Next ==
  \/ ConnectionNotFound
  \/ MissingLocalPath
  \/ BeginSyncFiles
  \/ WalkStep
  \/ RefStep
  \/ FetchBeforeFileList
  \/ ReconcileStep
  \/ CompleteUpload

Spec == Init /\ [][Next]_vars

(***************************************************************************)
(* ignoreFileOrDirectory on its own: any rule list, any relative path      *)
(***************************************************************************)
\* rule lists hold up to MaxRules rules
MaxRules == 2

Patterns ==
  { NameA, <<"/", "a">>, <<"[">>, <<"d", "/", "*">>, <<"*">>,
    <<"x", "/", ".", ".", "/", "d">>, <<"?">>, <<"[", "a", "-", "d", "]">>,
    <<"a", "\\">> }

Names == { NameA, NameD, NameDX, RefPathsName }

RuleListsUpTo(n) == UNION {[1..k -> Patterns] : k \in 0..n}

IgnInit ==
  /\ InitProgram
  /\ InitNoRemoval
  /\ synctime = MaxTime - 1
  /\ settingsFile = NoFile /\ refsFile = NoFile
  /\ locationOnDisk = ProjectPath
  /\ fs = ExternalFs(0)
  /\ ignName \in Names
  /\ ignRules \in RuleListsUpTo(MaxRules)
  /\ ignResult = FALSE
  /\ ignDone = FALSE

IgnoreCall ==
  /\ ~ignDone
  /\ ignResult' = ignoreFileOrDirectory(ignName, FALSE, ignRules)
  /\ ignDone' = TRUE
  /\ UNCHANGED <<remVars, ignName, ignRules, envVars, failures, pc, listVars, ruleVars,
                 walkQueue, refIdx, errText, syncInfoNil, syncErr, recVars, result,
                 calls, refWalks, manifests, notifs>>

SpecIgnore == IgnInit /\ [][IgnoreCall]_vars

(***************************************************************************)
(* One pass after another: the caller runs SyncProject again, with a       *)
(* cutoff of its choosing, while files of the project are being modified.  *)
(* The clock is read when a pass begins (line 96) and when a file is       *)
(* written, so it is advanced at those two places.                         *)
(***************************************************************************)
\* the passes one run of the caller makes
MaxPasses == 2
\* the files modified while passes run
MaxTouches == 1

progVars == <<failures, pc, listVars, ruleVars, walkQueue, refIdx, errText,
              syncInfoNil, syncErr, recVars, result, calls, refWalks, manifests,
              notifs>>

\* between two readings the clock stays in its millisecond or moves to the
\* next; a run of passes is over within a few milliseconds
ClockReadings == {t \in {now, now + 1} : t <= MaxTime + MaxPasses - 1}

\* the modified list as syncFiles returned it, the new files apart
WalkModifiedList ==
  IF Len(manifests) > 0
    THEN SubSeq(modifiedList, 1, Len(modifiedList) - Len(newfiles))
    ELSE modifiedList

\* what is kept of a pass that has returned
PassRecord ==
  [passNo |-> passNo, synctime |-> synctime, fileList |-> fileList,
   directoryList |-> directoryList, modifiedList |-> WalkModifiedList,
   uploadedFiles |-> uploadedFiles, manifests |-> manifests,
   BeforeFileList |-> BeforeFileList, touched |-> touched]

\* the cutoffs a caller gives the next pass: the same again, or the
\* timestamp of the manifest of the pass that has returned
NextCutoffs ==
  {synctime} \cup {manifests[i].TimeStamp : i \in 1..Len(manifests)}

\* the caller runs SyncProject again (lines 96-99 of the next run)
NextPass ==
  /\ pc = "done"
  /\ passNo < MaxPasses
  /\ passNo' = passNo + 1
  /\ prev' = PassRecord
  /\ synctime' \in NextCutoffs
  /\ now' \in ClockReadings
  /\ currentSyncTime' = now'
  /\ failures' = 0
  /\ pc' = "start"
  /\ fileList' = <<>> /\ directoryList' = <<>> /\ modifiedList' = <<>>
  /\ uploadedFiles' = <<>>
  /\ refPathsChanged' = FALSE
  /\ cwSettingsIgnoredPathsList' = <<>> /\ cwRefPathsList' = <<>>
  /\ cwCombinedIgnoredPathsList' = <<>>
  /\ walkQueue' = <<>> /\ refIdx' = 1 /\ errText' = <<>>
  /\ syncInfoNil' = FALSE /\ syncErr' = "nil"
  /\ BeforeFileList' = <<>> /\ fetched' = "no"
  /\ recIdx' = 1 /\ newfiles' = <<>>
  /\ result' = NoResult
  /\ calls' = <<>> /\ refWalks' = <<>> /\ manifests' = <<>> /\ notifs' = 0
  /\ UNCHANGED <<remVars, ignVars, fs, settingsFile, refsFile, locationOnDisk, touched>>

\* the files of the project the walk has listed, the rule files apart
ListedFiles ==
  {f \in DOMAIN fs : /\ Under(ProjectPath, f) /\ ~fs[f].isDir
                     /\ existsIn(RelativeTo(f), fileList)
                     /\ RelativeTo(f) \notin {RefPathsName, SettingsName}}

\* a file the walk has already listed is written while syncFiles runs
Touch ==
  /\ pc \in {"walk", "refs"}
  /\ Cardinality(touched) < MaxTouches
  /\ \E f \in ListedFiles \ touched, t \in ClockReadings :
       /\ fs' = [fs EXCEPT ![f].mtime = t]
       /\ now' = t
       /\ touched' = touched \cup {f}
  /\ UNCHANGED <<remVars, ignVars, progVars, settingsFile, refsFile, synctime,
                 locationOnDisk, currentSyncTime, passNo, prev>>

\* the projects the passes are run on
InitPresentPasses ==
  /\ synctime = MaxTime - 1
  /\ locationOnDisk = ProjectPath
  /\ settingsFile = NoFile
  /\ refsFile \in {NoFile, RuleFile("ok", << RefPath(ExtOF, NameB) >>, 0)}
  /\ \E aM \in Times, eM \in {0, MaxTime} :
       /\ refsFile = NoFile => eM = 0
       /\ fs = ProjectFs(settingsFile, refsFile, TRUE, aM, "ok", 0) @@ ExternalFs(eM)

InitPasses ==
  InitProgram /\ InitNoCall /\ InitNoRemoval /\ (InitMissing \/ InitPresentPasses)

NextPasses == Next \/ NextPass \/ Touch

SpecPasses == InitPasses /\ [][NextPasses]_vars

(***************************************************************************)
(* RemoveRemote (remove.go 84-166), one call to the cluster after another  *)
(***************************************************************************)
\* the items one list call returns, at most
MaxItems == 2

\* what a list call answers: an error, or a list of items
Listings ==
  {[err |-> TRUE, items |-> 0]} \cup {[err |-> FALSE, items |-> n] : n \in 0..MaxItems}

Deleted(status, err, deleteCalled) ==
  [status |-> status, err |-> err, deleteCalled |-> deleteCalled]

\* deleteDeployment (168-192): the status and whether an error is returned
deleteDeployment(listing, deleteOk) ==
  IF listing.err THEN Deleted(ResourceNotFound, TRUE, FALSE)
  ELSE IF listing.items = 1
    THEN IF ~deleteOk THEN Deleted(ResourceRemoveFailed, TRUE, TRUE)
         ELSE Deleted(ResourceRemoved, FALSE, TRUE)
  ELSE Deleted(ResourceNotProcessed, FALSE, FALSE)

\* deleteService (220-244)
deleteService(listing, deleteOk) ==
  IF listing.err THEN Deleted(ResourceNotFound, TRUE, FALSE)
  ELSE IF listing.items = 1
    THEN IF ~deleteOk THEN Deleted(ResourceRemoveFailed, TRUE, TRUE)
         ELSE Deleted(ResourceRemoved, FALSE, TRUE)
  ELSE Deleted(ResourceNotProcessed, FALSE, FALSE)

\* the call sites of lines 151-163: three deployments, then three services
IsDeploymentSite(i) == i <= 3

DeleteAt(i, listing, deleteOk) ==
  IF IsDeploymentSite(i) THEN deleteDeployment(listing, deleteOk)
  ELSE deleteService(listing, deleteOk)

RemLogEntry(field, listing, deleteOk, d) ==
  [field |-> field, listing |-> listing, deleteCalled |-> d.deleteCalled,
   deleteOk |-> deleteOk, err |-> d.err]

\* lines 115-126: the Kubernetes configuration or the clientset cannot be had
KubeClientFails ==
  /\ remPc = "start"
  /\ remPc' = "done"
  /\ remResult' = RemResult(TRUE, TRUE, "errOpNotFound")
  /\ UNCHANGED <<removalStatus, remLog, ignVars, envVars, progVars>>

\* lines 130-135: the namespace is looked up
NamespaceCheck ==
  /\ remPc = "start"
  /\ \E found \in BOOLEAN :
       IF found
         THEN remPc' = "deleting" /\ remResult' = remResult
         ELSE /\ remPc' = "done"
              /\ remResult' = RemResult(TRUE, TRUE, "errOpCreateNamespace")
  /\ UNCHANGED <<removalStatus, remLog, ignVars, envVars, progVars>>

\* the status is stored, the error dropped; after the last call site
\* RemoveRemote returns the result with a nil error (line 165)
RemoveStored(i, listing, deleteOk, d) ==
  /\ removalStatus' = [removalStatus EXCEPT ![HandledResources[i]] = d.status]
  /\ remLog' = Append(remLog, RemLogEntry(HandledResources[i], listing, deleteOk, d))
  /\ IF i = Len(HandledResources)
       THEN remPc' = "done" /\ remResult' = RemResult(TRUE, FALSE, "nil")
       ELSE remPc' = remPc /\ remResult' = remResult

\* the call site RemoveRemote is at: one answer is logged for each one passed
CallSite == Len(remLog) + 1

\* lines 151-165: one of the six delete calls
RemoveStep ==
  /\ remPc = "deleting"
  /\ \E listing \in Listings, deleteOk \in BOOLEAN :
       /\ (listing.err \/ listing.items # 1) => deleteOk
       /\ \E d \in {DeleteAt(CallSite, listing, deleteOk)} :
            RemoveStored(CallSite, listing, deleteOk, d)
  /\ UNCHANGED <<ignVars, envVars, progVars>>

RemInit ==
  /\ InitProgram /\ InitNoCall
  /\ InitRemoval("start")
  /\ synctime = MaxTime - 1
  /\ settingsFile = NoFile /\ refsFile = NoFile
  /\ locationOnDisk = ProjectPath
  /\ fs = ExternalFs(0)

RemNext == KubeClientFails \/ NamespaceCheck \/ RemoveStep

SpecRemove == RemInit /\ [][RemNext]_vars

(***************************************************************************)
(* Vocabulary of the properties.                                           *)
(***************************************************************************)
\* the pass is over: SyncProject returned, or the process panicked
PassOver == pc \in {"done", "panic"}

\* the pass walked the project tree to its end without a traversal error
WalkSucceeded ==
  /\ PathExists(ProjectPath)
  /\ pc \notin {"start", "walk"}
  /\ ~syncInfoNil
  /\ result.err # "errOpConNotFound"

Range(seq) == {seq[i] : i \in 1..Len(seq)}

\* the reference paths of the pass, From resolved
Refs ==
  {[from |-> ResolveFrom(r.From), to |-> r.To] : r \in Range(cwRefPathsList)}

\* the reference's From is an existing regular file
ValidRef(r) == ~InvalidReference(r.from)

\* at least one rule, cleaned and stripped, globs the whole path
AnyRuleMatches(name, rules) ==
  \E i \in 1..Len(rules) : Match(CleanedRule(rules[i]), name).matched

\* the lists one pass hands out
OutputPaths ==
  Range(fileList) \cup Range(directoryList) \cup Range(modifiedList)
    \cup {u.FilePath : u \in Range(uploadedFiles)}

(***************************************************************************)
(* C1: every pass whose project path exists and whose tree walk succeeds   *)
(* sends the completion manifest exactly once, after every upload.         *)
(* Stated of the finished pass: once such a pass is over, exactly one      *)
(* manifest has been dispatched.                                           *)
(***************************************************************************)
C1_ManifestExactlyOnce ==
  (PassOver /\ WalkSucceeded) => Len(manifests) = 1

(***************************************************************************)
(* C2: a traversal error of the primary walk aborts the pass: SyncProject  *)
(* returns a fatal error tagged with the sync phase, makes no              *)
(* reconciliation upload and sends no completion manifest.                 *)
(***************************************************************************)
C2_TraversalErrorReturned ==
  (PassOver /\ syncInfoNil) =>
    /\ result.returned /\ result.err = "errOpSync"
    /\ manifests = <<>>
    /\ \A c \in Range(calls) : c.phase # "reconcile"

(***************************************************************************)
(* C3: the project path does not exist and the remote's record of the      *)
(* project is fetched.  If the path is the recorded location, exactly one  *)
(* missing-directory notification is dispatched; if it is not, none is.    *)
(* Either way the pass ends with a fatal result (no response, error        *)
(* errBadPath), and there was no walk, no file upload and no manifest.     *)
(***************************************************************************)
C3_MissingPath ==
  (pc = "done" /\ ~PathExists(ProjectPath) /\ result.err = "errBadPath") =>
    /\ result.returned /\ result.respNil
    /\ notifs = (IF ProjectPath = locationOnDisk THEN 1 ELSE 0)
    /\ calls = <<>> /\ manifests = <<>>
    /\ fileList = <<>> /\ directoryList = <<>> /\ modifiedList = <<>>
    /\ uploadedFiles = <<>>

\* C3 witness: the path was the recorded location and the remote was told
C3_Witness ==
  /\ pc = "done" /\ ~PathExists(ProjectPath) /\ ProjectPath = locationOnDisk
  /\ result.err = "errBadPath" /\ notifs = 1

(***************************************************************************)
(* C4: in a pass where the remote's prior file list was fetched, every     *)
(* path of the computed file list that the prior list lacks is uploaded    *)
(* (a request carrying that relative path is dispatched) and is in the     *)
(* manifest's modified list.                                               *)
(***************************************************************************)
C4_NewFilesUploaded ==
  (pc = "done" /\ fetched = "ok") =>
    \A f \in Range(fileList) :
      ~existsIn(f, BeforeFileList) =>
        /\ existsIn(f, manifests[1].ModifiedList)
        /\ \E c \in Range(calls) : c.rel = f /\ c.reached = "dispatched"

(***************************************************************************)
(* C5: for every reference {from, to} whose from is an existing regular    *)
(* file modified after the cutoff and whose to the base rules do not       *)
(* ignore, the pass puts to in the file list and makes an upload attempt   *)
(* that reads from and carries to as the relative path, in the envelope    *)
(* and in the recorded outcome.                                            *)
(***************************************************************************)
C5_ReferenceUploadedAsTo ==
  (PassOver /\ WalkSucceeded) =>
    \A r \in Refs :
      (/\ ValidRef(r)
       /\ fs[r.from].mtime > synctime
       /\ ~ignoreFileOrDirectory(r.to, FALSE, cwSettingsIgnoredPathsList)) =>
        /\ existsIn(r.to, fileList)
        /\ \E c \in Range(calls) : c.phase = "ref" /\ c.path = r.from /\ c.rel = r.to
        /\ \E u \in Range(uploadedFiles) : u.FilePath = r.to

(***************************************************************************)
(* C6: a file of the project that is the to target of a reference is       *)
(* never synced from its physical location: no call of any phase reads     *)
(* <projectRoot>/<to> (a reference whose own from is that path apart).     *)
(***************************************************************************)
C6_NeverFromPhysicalLocation ==
  \A r \in Refs : \A c \in Range(calls) :
    (Abs(r.to) \in DOMAIN fs /\ r.from # Abs(r.to)) => c.path # Abs(r.to)

(***************************************************************************)
(* C7: the primary tree walk never adds the to path of a reference to the  *)
(* file list or the directory list, whatever the ignore rules are.         *)
(* (While the primary walk runs, and until the first reference is walked,  *)
(* the lists hold what the primary walk added.)                            *)
(***************************************************************************)
C7_ToNotInPrimaryLists ==
  (pc = "walk" \/ (pc = "refs" /\ refIdx = 1)) =>
    \A r \in Refs : ~existsIn(r.to, fileList) /\ ~existsIn(r.to, directoryList)

(***************************************************************************)
(* C8: after a pass, no descendant of a project directory that the ignore  *)
(* rules match is in any output list (file, directory, modified, uploaded  *)
(* files), entries of reference walks included.                            *)
(***************************************************************************)
C8_IgnoredDirectoriesPruned ==
  pc = "done" =>
    \A d \in DOMAIN fs :
      (/\ Under(ProjectPath, d) /\ fs[d].isDir
       /\ AnyRuleMatches(RelativeTo(d), cwSettingsIgnoredPathsList)) =>
        \A e \in OutputPaths \cup Range(manifests[1].ModifiedList) :
          ~Under(RelativeTo(d), e)

(***************************************************************************)
(* C9: ignoreFileOrDirectory(P, _, R) is true if and only if at least one  *)
(* rule of R, cleaned and stripped of a leading separator, globs the whole *)
(* of P; a malformed rule is a non-match of that rule alone.               *)
(***************************************************************************)
C9_IgnoredIffSomeRuleMatches ==
  ignDone => (ignResult <=> AnyRuleMatches(ignName, ignRules))

RefPathsFileListedModified ==
  /\ refsFile.status # "missing"
  /\ refsFile.mtime > synctime
  /\ ~ignoreFileOrDirectory(RefPathsName, FALSE,
        CombinedIgnoredPaths(retrieveIgnoredPathsList, retrieveRefPathsList))

SecondPassSameCutoff ==
  /\ passNo = 2 /\ pc = "done"
  /\ manifests # <<>> /\ prev.manifests # <<>>
  /\ synctime = prev.synctime
  /\ touched = {}

FilePaths(uploaded) == [i \in 1..Len(uploaded) |-> uploaded[i].FilePath]

\* the files of the file list that lie in the project and are not the To of
\* a reference
PhysicalFiles ==
  {f \in DOMAIN fs : /\ Under(ProjectPath, f) /\ ~fs[f].isDir
                     /\ existsIn(RelativeTo(f), fileList)
                     /\ \A r \in Refs : r.to # RelativeTo(f)}

(***************************************************************************)
(* C11 as claimed: when a pass is run twice with the same cutoff and no    *)
(* filesystem change in between, the second pass's modified list is empty  *)
(* and the second pass makes no upload attempt.                            *)
(***************************************************************************)
C11_SecondPassEmpty ==
  SecondPassSameCutoff => (manifests[1].ModifiedList = <<>> /\ calls = <<>>)

(***************************************************************************)
(* C11 as amended: the second of two passes run with the same cutoff on an *)
(* unchanged filesystem computes the file, directory and walk-modified     *)
(* lists of the first and attempts the same walk uploads; a file of the    *)
(* project is in its modified list exactly when its modification time is   *)
(* above the cutoff, so the list is empty only if no listed file is newer  *)
(* than the cutoff.                                                        *)
(***************************************************************************)
C11_SecondPassSameLists ==
  SecondPassSameCutoff =>
    /\ fileList = prev.fileList
    /\ directoryList = prev.directoryList
    /\ WalkModifiedList = prev.modifiedList
    /\ FilePaths(uploadedFiles) = FilePaths(prev.uploadedFiles)
    /\ Len(uploadedFiles) = Len(WalkModifiedList)
    /\ \A f \in PhysicalFiles :
         existsIn(RelativeTo(f), WalkModifiedList) <=> fs[f].mtime > synctime

\* C11 witness: the second pass uploaded again a file newer than the cutoff
C11_Witness ==
  /\ SecondPassSameCutoff
  /\ WalkModifiedList # <<>>
  /\ \E c \in Range(calls) : c.phase = "walk" /\ c.reached = "dispatched"

\* a call of syncFile that ended in a stat, read or transport failure
FailedCall(c) == c.reached # "panic" /\ c.out.StatusCode = 0

\* the relative path of the file a call was made for: the To of the
\* reference in a reference walk, the path under the root otherwise
TargetPaths(c) ==
  IF c.phase = "ref" THEN {r.to : r \in {q \in Refs : q.from = c.path}}
  ELSE {c.rel}

(***************************************************************************)
(* C12: a per-file upload failure (stat, read or transport) never blocks   *)
(* the pass: once a pass whose walk succeeded is over, every failed call   *)
(* has the outcome {its file's relative path, "Failed", 0} in the result's *)
(* uploadedFiles, every file of the manifest's modified list had its       *)
(* upload attempt, and the manifest was sent.                              *)
(***************************************************************************)
C12_FailureNeverBlocks ==
  (PassOver /\ WalkSucceeded /\ \E c \in Range(calls) : FailedCall(c)) =>
    /\ pc = "done" /\ Len(manifests) = 1
    /\ \A c \in Range(calls) :
         FailedCall(c) =>
           \E p \in TargetPaths(c) :
             existsIn(UploadedFile(p, "Failed", 0), result.UploadedFiles)
    /\ \A i \in 1..Len(manifests[1].ModifiedList) :
         \E c \in Range(calls) : manifests[1].ModifiedList[i] \in TargetPaths(c)

\* the failures of the walk of the project tree alone are recorded
C12_WalkFailuresRecorded ==
  pc = "done" =>
    \A c \in Range(calls) :
      (FailedCall(c) /\ c.phase = "walk") =>
        existsIn(UploadedFile(c.rel, "Failed", 0), result.UploadedFiles)

\* the pass has a reference whose From does not exist or is a directory
SomeInvalidRef == \E r \in Refs : ~ValidRef(r)

\* what C13 says of a pass that had to skip a reference
SkippedNotAborted ==
  /\ pc = "done" /\ result.returned /\ ~result.respNil
  /\ Len(manifests) = 1
  /\ manifests[1].FileList = fileList
  /\ manifests[1].DirectoryList = directoryList
  /\ manifests[1].ModifiedList = modifiedList
  /\ result.err = "errOpSyncRef"
  /\ \A r \in Refs : ~ValidRef(r) => existsIn(r.from, result.desc)
  /\ \A r \in Refs : ValidRef(r) =>
       \E k \in 1..Len(refWalks) : refWalks[k].from = r.from /\ refWalks[k].to = r.to

(***************************************************************************)
(* C13: a reference whose from does not exist or is a directory is skipped *)
(* without aborting the pass: once a pass whose walk succeeded is over,    *)
(* every valid reference was walked, the manifest was sent with the lists  *)
(* gathered, and the result returned carries one warning (errOpSyncRef)    *)
(* that mentions every skipped reference.                                  *)
(***************************************************************************)
C13_InvalidReferenceSkipped ==
  (PassOver /\ WalkSucceeded /\ SomeInvalidRef) => SkippedNotAborted

\* the same of the passes that did not panic
C13_SkippedWhenReturned ==
  (pc = "done" /\ WalkSucceeded /\ SomeInvalidRef) => SkippedNotAborted

(***************************************************************************)
(* C14: transport errors are classified by operation.  Hard: when the      *)
(* query for the project's record fails, or the submission of the manifest *)
(* fails in transport (status code 0), SyncProject returns an error.       *)
(* Soft: a transport failure of a per-file upload alone never makes        *)
(* SyncProject return an error, i.e. an error returned with a response has *)
(* another cause, a skipped reference.                                     *)
(***************************************************************************)
C14_TransportErrorsClassified ==
  pc = "done" =>
    /\ (~result.respNil /\ result.StatusCode = 0) => result.err # "nil"
    /\ (~PathExists(ProjectPath) /\ notifs = 0 /\ result.err # "errBadPath")
         => result.err \in {"errOpGetProject", "errOpConNotFound"}
    /\ (~result.respNil /\ result.err # "nil") => SomeInvalidRef

\* the soft half and the metadata half of C14 alone
C14_UploadFailuresSoft ==
  pc = "done" =>
    /\ (~PathExists(ProjectPath) /\ notifs = 0 /\ result.err # "errBadPath")
         => result.err \in {"errOpGetProject", "errOpConNotFound"}
    /\ (~result.respNil /\ result.err # "nil") => SomeInvalidRef

\* the pass got past the reading of the rule files
RulesRead ==
  pc # "start" /\ PathExists(ProjectPath) /\ result.err # "errOpConNotFound"

\* the pass stopped short of its completion
Aborted == pc = "panic"

\* the last call of syncFile panicked on its slice (line 410)
SlicePanic == calls # <<>> /\ calls[Len(calls)].reached = "panic"

(***************************************************************************)
(* C15: rule-file leniency.  Each of .cw-settings and .cw-refpaths.json,   *)
(* independently of the other, yields its list when it parses and the      *)
(* empty list when it is missing, unreadable or unparseable; the pass goes *)
(* on to the walk with these rules, and a pass stops short of completion   *)
(* only on a traversal error of the walk or on the panic of a reference    *)
(* upload, neither of which a bad rule file brings about: with a bad or    *)
(* missing reference file no reference is walked and only a traversal      *)
(* error stops the pass; a pass that returns has sent its manifest.        *)
(***************************************************************************)
C15_RuleFileLeniency ==
  RulesRead =>
    /\ cwSettingsIgnoredPathsList =
         (IF settingsFile.status = "ok" THEN settingsFile.list ELSE <<>>)
    /\ cwRefPathsList = (IF refsFile.status = "ok" THEN refsFile.list ELSE <<>>)
    /\ cwCombinedIgnoredPathsList =
         cwSettingsIgnoredPathsList \o ToPaths(cwRefPathsList, 1)
    /\ Aborted => (syncInfoNil \/ SlicePanic)
    /\ refsFile.status # "ok" =>
         /\ refWalks = <<>> /\ errText = <<>>
         /\ Aborted => syncInfoNil
    /\ pc = "done" => Len(manifests) = 1

\* C15 witness: an unparseable .cw-settings beside a good .cw-refpaths.json,
\* whose reference was walked, and the pass completed
C15_Witness ==
  /\ pc = "done" /\ Len(manifests) = 1
  /\ settingsFile.status \in {"bad", "unreadable"}
  /\ refsFile.status = "ok"
  /\ refWalks # <<>>
  /\ cwSettingsIgnoredPathsList = <<>>

\* C15, the other way round: good ignore rules beside a bad reference file
C15_WitnessBadRefs ==
  /\ pc = "done" /\ Len(manifests) = 1
  /\ settingsFile.status = "ok" /\ refsFile.status \in {"bad", "unreadable"}
  /\ cwSettingsIgnoredPathsList # <<>> /\ cwRefPathsList = <<>>

PhaseRank(phase) ==
  CASE phase = "walk" -> 1 [] phase = "ref" -> 2 [] OTHER -> 3

(***************************************************************************)
(* C16: within a pass the phases occur in the order ValidateLocalPath,     *)
(* WalkLocal, WalkReferences, Reconcile, Complete.  In every state: a      *)
(* syncFile call or a list entry exists only if the local path exists; a   *)
(* reference is walked or skipped only when the walk of the project tree   *)
(* has no entry left to visit; the calls are in the order walk, reference, *)
(* reconciliation; reconciliation begins only when every reference had its *)
(* turn; and once the manifest is dispatched the pass has returned, so no  *)
(* upload follows it.                                                      *)
(***************************************************************************)
C16_PhaseOrder ==
  /\ (calls # <<>> \/ fileList # <<>> \/ directoryList # <<>> \/ pc = "walk")
       => PathExists(ProjectPath)
  /\ (refWalks # <<>> \/ errText # <<>> \/ pc = "refs")
       => (walkQueue = <<>> /\ ~syncInfoNil)
  /\ \A i, j \in 1..Len(calls) :
       i < j => PhaseRank(calls[i].phase) <= PhaseRank(calls[j].phase)
  /\ (pc \in {"reconcile", "complete"} \/ manifests # <<>>)
       => (walkQueue = <<>> /\ refIdx > Len(cwRefPathsList))
  /\ manifests # <<>> => (pc = "done" /\ Len(manifests) = 1)

\* C16 witness: a pass that uploaded in the walk, in a reference walk and in
\* reconciliation, and then sent its manifest
C16_Witness ==
  /\ pc = "done" /\ Len(manifests) = 1
  /\ \E c \in Range(calls) : c.phase = "walk"
  /\ \E c \in Range(calls) : c.phase = "ref"
  /\ \E c \in Range(calls) : c.phase = "reconcile"

\* the project has neither .cw-settings nor .cw-refpaths.json
NoRuleFiles == settingsFile = NoFile /\ refsFile = NoFile

\* the regular files under the project root
ProjectFiles == {f \in DOMAIN fs : Under(ProjectPath, f) /\ ~fs[f].isDir}

Count(seq, x) == Cardinality({i \in 1..Len(seq) : seq[i] = x})

WalkCallsOf(f) ==
  Cardinality({i \in 1..Len(calls) : calls[i].phase = "walk" /\ calls[i].path = f})

(***************************************************************************)
(* C17: walk classification.  For a project with no ignore or reference    *)
(* file, once the walk has succeeded: every file under the root is in the  *)
(* file list exactly once and the file list holds nothing else (the root   *)
(* is in no list); a file is in the walk's modified list if and only if    *)
(* its modification time is strictly greater than the cutoff; the walk     *)
(* made exactly one upload attempt for each modified file and none for an  *)
(* unmodified one.                                                         *)
(***************************************************************************)
C17_WalkClassification ==
  (WalkSucceeded /\ NoRuleFiles) =>
    /\ \A f \in ProjectFiles : Count(fileList, RelativeTo(f)) = 1
    /\ \A i \in 1..Len(fileList) : Abs(fileList[i]) \in ProjectFiles
    /\ \A e \in OutputPaths : e # <<>> /\ Abs(e) # ProjectPath
    /\ \A f \in ProjectFiles :
         /\ existsIn(RelativeTo(f), WalkModifiedList) <=> fs[f].mtime > synctime
         /\ Count(WalkModifiedList, RelativeTo(f)) <= 1
         /\ WalkCallsOf(f) = (IF fs[f].mtime > synctime THEN 1 ELSE 0)

\* C17 witness: one file not modified since the cutoff, one file modified
\* after it, the second alone uploaded
C17_Witness ==
  /\ pc = "done" /\ NoRuleFiles
  /\ PathExists(Abs(NameA)) /\ PathExists(Abs(NameDX))
  /\ fs[Abs(NameA)].mtime <= synctime
  /\ fs[Abs(NameDX)].mtime > synctime
  /\ fileList = <<NameA, NameDX>>
  /\ WalkModifiedList = <<NameDX>>
  /\ WalkCallsOf(Abs(NameA)) = 0 /\ WalkCallsOf(Abs(NameDX)) = 1

\* the second pass, run with the timestamp of the first pass's manifest as
\* its cutoff, has returned
SecondPassFromTimestamp ==
  /\ passNo = 2 /\ pc = "done"
  /\ manifests # <<>> /\ prev.manifests # <<>>
  /\ synctime = prev.manifests[1].TimeStamp

\* the pass lists the file as modified and dispatches its upload
ListedAndUploaded(f) ==
  /\ existsIn(RelativeTo(f), manifests[1].ModifiedList)
  /\ \E c \in Range(calls) : c.path = f /\ c.reached = "dispatched"

(***************************************************************************)
(* C18: no modification is missed across passes: a file modified after     *)
(* the walker listed it in pass N is listed as modified, and uploaded, by  *)
(* pass N+1 run with the timestamp of pass N's manifest as cutoff.         *)
(***************************************************************************)
C18_NoModificationMissed ==
  SecondPassFromTimestamp => \A f \in prev.touched : ListedAndUploaded(f)

\* the same of the files written in a later millisecond than the one in
\* which pass N began
C18_LaterMillisecondNotMissed ==
  SecondPassFromTimestamp =>
    \A f \in prev.touched : fs[f].mtime > synctime => ListedAndUploaded(f)

(***************************************************************************)
(* C19: a failed upload is not lost across passes: if an upload of pass N  *)
(* failed (outcome statusCode 0) and no file is changed afterwards, then   *)
(* pass N+1, run with the timestamp of pass N's manifest as cutoff and     *)
(* with the remote's prior file list equal to pass N's manifest file list, *)
(* calls syncFile for that file again.                                     *)
(***************************************************************************)
C19_FailedUploadRetried ==
  (/\ SecondPassFromTimestamp
   /\ fetched = "ok" /\ BeforeFileList = prev.manifests[1].FileList
   /\ touched = {}) =>
    \A i \in 1..Len(prev.uploadedFiles) :
      prev.uploadedFiles[i].StatusCode = 0 =>
        \E c \in Range(calls) : prev.uploadedFiles[i].FilePath \in TargetPaths(c) \cup {c.rel}

\* the outcomes a call of the walk or of a reference walk returned
RECURSIVE WalkOutcomes(_)
WalkOutcomes(cs) ==
  IF cs = <<>> THEN <<>>
  ELSE IF Head(cs).phase = "reconcile" THEN WalkOutcomes(Tail(cs))
  ELSE <<Head(cs).out>> \o WalkOutcomes(Tail(cs))

(***************************************************************************)
(* C20: every upload attempt of a pass (a call of syncFile in the walk, in *)
(* a reference walk or in reconciliation) has exactly one outcome in the   *)
(* uploadedFiles of the result returned, and every outcome there is the    *)
(* outcome of an attempt: the list is the outcomes of the calls, in order. *)
(***************************************************************************)
C20_OutcomePerAttempt ==
  pc = "done" /\ ~result.respNil =>
    /\ Len(result.UploadedFiles) = Len(calls)
    /\ \A i \in 1..Len(calls) : result.UploadedFiles[i] = calls[i].out

\* the same of the attempts of the walks alone
C20_WalkOutcomes ==
  pc = "done" /\ ~result.respNil => result.UploadedFiles = WalkOutcomes(calls)

\* the requests dispatched for the file at path
DispatchesOf(path) ==
  Cardinality({i \in 1..Len(calls) :
                 calls[i].path = path /\ calls[i].reached = "dispatched"})

(***************************************************************************)
(* C21: within one pass no file is uploaded more than once (at most one    *)
(* request is dispatched for a path read) and no relative path occurs more *)
(* than once in the modified list of the manifest, a file that is both     *)
(* modified since the cutoff and absent from the remote's prior file list  *)
(* included.                                                               *)
(***************************************************************************)
C21_NoDoubleUpload ==
  pc = "done" /\ manifests # <<>> =>
    /\ \A c \in Range(calls) : DispatchesOf(c.path) <= 1
    /\ \A p \in Range(manifests[1].ModifiedList) :
         Count(manifests[1].ModifiedList, p) = 1

(***************************************************************************)
(* C22: the modified list is a subset of the file list: in every state of  *)
(* a pass each path of the modified list, and each new file found by       *)
(* reconciliation, is a path of the file list, and so it is in every       *)
(* completion manifest sent.                                               *)
(***************************************************************************)
C22_ModifiedSubsetOfFiles ==
  /\ \A p \in Range(modifiedList) \cup Range(newfiles) : existsIn(p, fileList)
  /\ \A i \in 1..Len(manifests) :
       /\ manifests[i].FileList = fileList
       /\ \A p \in Range(manifests[i].ModifiedList) :
            existsIn(p, manifests[i].FileList)

\* C22 witness: a manifest whose modified list holds a file of the walk, the
\* To of a reference and a new file found by reconciliation
C22_Witness ==
  /\ pc = "done" /\ Len(manifests) = 1
  /\ newfiles # <<>>
  /\ \E c \in Range(calls) : c.phase = "walk"
  /\ \E k \in 1..Len(refWalks) : existsIn(refWalks[k].to, manifests[1].ModifiedList)

\* RemoveRemote found the namespace and returned its RemovalResult
RemovalReturned == remPc = "done" /\ ~remResult.resultNil

\* the status reported for the resource of the i-th call site
StatusAt(i) == removalStatus[HandledResources[i]]

(***************************************************************************)
(* C23: for each of the three deployments and three services, once the     *)
(* namespace is found, the status reported follows the documented meaning  *)
(* of the constants: ResourceRemoved exactly when a delete call for the    *)
(* resource succeeded, ResourceRemoveFailed exactly when a delete call for *)
(* it failed, ResourceNotFound whenever it could not be located (the list  *)
(* call failed or no item matched the selector), never ResourceFound; and  *)
(* every one of the six is processed whatever failed before it.            *)
(***************************************************************************)
C23_StatusFollowsConstants ==
  RemovalReturned =>
    /\ Len(remLog) = Len(HandledResources)
    /\ \A i \in 1..Len(remLog) :
         /\ remLog[i].field = HandledResources[i]
         /\ StatusAt(i) = ResourceRemoved
              <=> (remLog[i].deleteCalled /\ remLog[i].deleteOk)
         /\ StatusAt(i) = ResourceRemoveFailed
              <=> (remLog[i].deleteCalled /\ ~remLog[i].deleteOk)
         /\ (remLog[i].listing.err \/ remLog[i].listing.items = 0)
              => StatusAt(i) = ResourceNotFound
         /\ StatusAt(i) # ResourceFound

\* what the code does report: ResourceNotFound for a failed list call only,
\* ResourceNotProcessed when the list holds no item or more than one
C23_StatusAsCoded ==
  RemovalReturned =>
    /\ Len(remLog) = Len(HandledResources)
    /\ \A i \in 1..Len(remLog) :
         /\ remLog[i].field = HandledResources[i]
         /\ StatusAt(i) = ResourceRemoved
              <=> (remLog[i].deleteCalled /\ remLog[i].deleteOk)
         /\ StatusAt(i) = ResourceRemoveFailed
              <=> (remLog[i].deleteCalled /\ ~remLog[i].deleteOk)
         /\ StatusAt(i) = ResourceNotFound <=> remLog[i].listing.err
         /\ StatusAt(i) = ResourceNotProcessed
              <=> (~remLog[i].listing.err /\ remLog[i].listing.items # 1)
         /\ StatusAt(i) # ResourceFound

====
